---------------------------- MODULE Spec2Model ----------------------------
(***************************************************************************)
(* Model of the site image crawler: the job runner and the progress       *)
(* estimator of src/src/server.js, the crawl unit of src/unnamed/part_001  *)
(* (crawler.js): the site crawl frontier loop and the image ingestor       *)
(* (downloadImages), and the scroll collector of src/unnamed/part_002      *)
(* (pinterest-driver.js).                                                  *)
(*                                                                         *)
(* The specifications share the variables; each leaves the other           *)
(* components' variables at their initial values:                          *)
(*   Spec          the job runner: start requests, status polls, the child *)
(*                 process's error/close events                            *)
(*   SpecIngest    downloadImages over a candidate list, run twice         *)
(*   SpecCrawl     the breadth-first frontier loop of run()                *)
(*   SpecCrawlFair the same, every enabled step eventually taken           *)
(*   SpecScroll    collectPinterestImageUrls over every sequence of batches*)
(*   SpecProgress  buildProgress over a job state and a log file           *)
(*   SpecEstimate  the percent/eta arithmetic of buildProgress             *)
(*   SpecRun       one whole run(): RUN start, discovery in either mode,   *)
(*                 downloadImages, the report, RUN end                     *)
(*   SpecRunFair   the same, every enabled step eventually taken           *)
(*   SpecFinish    a scroll-mode job, its close event and a status request *)
(*                 after it, over a log file earlier runs wrote to         *)
(***************************************************************************)
EXTENDS Integers, Sequences, FiniteSets, TLC

VARIABLES
    \* ---- job runner (server.js) ----
    state,        \* the JobState singleton, server.js:18-27
    now,          \* the wall clock read by new Date()
    pending,      \* start requests suspended at `await ensureDataPaths()`
    nStarts,      \* number of start requests received so far
    children,     \* child processes created by spawn(), by creation order
    lastChild,    \* index in children of the most recent accepted start, 0 = none
    nResponses,   \* how many times the start handler has answered
    lastResp,     \* the last answer of the start handler
    statusResp,   \* last response of GET /api/crawl/status
    poll,         \* the status request suspended at `await readTail(...)`, Null if none
    \* ---- image ingestor (downloadImages) ----
    imageUrls,        \* the candidate list handed to downloadImages
    minWidth,         \* the minWidth argument
    pos,              \* index of the next candidate of the for-of loop
    downloadedImages, \* the Set of locations already taken up
    stats,            \* the stats object being accumulated
    ingestPc,         \* "loop" | "returned" | "threw"
    runNo,            \* 1 for the first ingest of the list, 2 for the re-run
    store,            \* the file names present in the content store
    version,          \* per location: which content the origin server serves
    activity,         \* the activity record lines appended by log()
    fetches,          \* history: per location, the fetchImage calls of this ingest
    decodes,          \* history: imageSize results of this ingest, [url, w]
    fileWrites,       \* history: fs.writeFile calls, [run, url, ver, name]
    storeAfterFirst,  \* history: the store when the first ingest ended
    \* ---- site crawler (run(), mode site) ----
    maxDepth,         \* the --depth argument
    sameOriginOnly,   \* the --same-origin argument
    queue,            \* the frontier: sequence of [url, depth]
    visitedPages,     \* the Set of visited page urls
    discoveredImages, \* image candidates pushed so far
    pagesVisited,     \* commonStats.pagesVisited
    crawlPc,          \* "loop" | "ingest"
    startUrl,         \* the --url argument, the seed
    visits,           \* history: pages fetched, [url, depth, fetch], in order
    linksFound,       \* history: [from, url] for every link extractLinks returned,
                      \*          from = the depth of the page it was found on
    enqueued,         \* history: frontier pushes, [from, url, depth]
    \* ---- scroll collector (collectPinterestImageUrls) ----
    maxImages,        \* options.maxImages
    maxScrolls,       \* options.maxScrolls
    scroll,           \* let scroll: passes completed
    found,            \* the Set found, in insertion order
    adsSkipped,       \* let adsSkipped
    batch,            \* batch.urls of the pass in progress
    bi,               \* index in batch of the next raw url of the for-of loop
    scrollPc,         \* "start" | "loop" | "inner" | "endpass" | "returned" | "threw"
    browser,          \* "none" | "open" | "closed": the chromium session
    collected,        \* the value returned by collect, Null before
    passes,           \* history: passes begun (page.evaluate calls)
    richRaw,          \* history: every pass rendered >= maxImages distinct urls
    richNorm,         \* history: ... >= maxImages urls distinct once normalized
    \* ---- progress estimator (buildProgress) ----
    logLines,         \* the lines of the activity log file
    polled,           \* buildProgress has been called
    progress,         \* the value buildProgress returned
    tally,            \* its locals saved .. collectedTotal after the loop
    \* ---- the arithmetic of buildProgress, lines 197-218 ----
    estIn,            \* [processed, target, elapsedSec, running] before line 209
    estOut,           \* [percent, etaSec] after line 218, Null before
    \* ---- one whole run of the crawl unit (run()) ----
    runMode,          \* args.mode: "site" | "pinterest"
    runPc,            \* "idle" | "start" | "discover" | "ingest" | "end" | "done" | "fatal"
    report            \* the object written to crawl-report.json, Null before

jobVars == <<state, now, pending, nStarts, children, lastChild, nResponses, lastResp,
            statusResp, poll>>

ingestVars == <<imageUrls, minWidth, pos, downloadedImages, stats, ingestPc, runNo,
                store, version, activity, fetches, decodes, fileWrites, storeAfterFirst>>

crawlVars == <<maxDepth, sameOriginOnly, queue, visitedPages, discoveredImages,
               pagesVisited, crawlPc, startUrl, visits, linksFound, enqueued>>

scrollVars == <<maxImages, maxScrolls, scroll, found, adsSkipped, batch, bi, scrollPc,
                browser, collected, passes, richRaw, richNorm>>

progressVars == <<logLines, polled, progress, tally>>

estVars == <<estIn, estOut>>

runVars == <<runMode, runPc, report>>

vars == <<jobVars, ingestVars, crawlVars, scrollVars, progressVars, estVars, runVars>>

\* the frame of each component's steps: the other components stand still
JobOnly == UNCHANGED <<ingestVars, crawlVars, scrollVars, progressVars, estVars, runVars>>

IngestOnly == UNCHANGED <<jobVars, crawlVars, scrollVars, progressVars, estVars, runVars>>

\* the crawler appends to the activity record as the ingestor does
CrawlOnly ==
    UNCHANGED <<jobVars, imageUrls, minWidth, pos, downloadedImages, stats, ingestPc,
                runNo, store, version, fetches, decodes, fileWrites, storeAfterFirst,
                scrollVars, progressVars, estVars, runVars>>

\* the scroll collector appends to the activity record too
ScrollOnly ==
    UNCHANGED <<jobVars, imageUrls, minWidth, pos, downloadedImages, stats, ingestPc,
                runNo, store, version, fetches, decodes, fileWrites, storeAfterFirst,
                crawlVars, progressVars, estVars, runVars>>

\* the arithmetic alone
EstimateOnly ==
    UNCHANGED <<jobVars, ingestVars, crawlVars, scrollVars, progressVars, runVars>>

\* the estimator reads the job state and the clock and changes neither
ProgressOnly == UNCHANGED <<jobVars, ingestVars, crawlVars, scrollVars, estVars, runVars>>

-----------------------------------------------------------------------------
(* Bounds of the model.                                                    *)

\* start requests received in one behaviour
MaxStarts == 2
\* clock ticks in one behaviour
MaxTime == 1
\* largest --max-images tried
MaxImagesBound == 2
\* largest --max-scrolls tried
MaxScrollsBound == 2
\* image urls one page.evaluate returns at most
MaxBatch == 2
\* ad tiles one page.evaluate counts at most
MaxAds == 1
\* lines in the activity log file
MaxLogLines == 2
\* largest processed count the arithmetic is tried on
MaxProcessed == 23
\* largest target the arithmetic is tried on
MaxTarget == 40

-----------------------------------------------------------------------------
(* null / undefined and optional values: <<>> is null, <<v>> is the value v *)

Null == <<>>

Some(v) == <<v>>

-----------------------------------------------------------------------------
(*                          JOB RUNNER (server.js)                         *)

\* req.body || {} : the request bodies tried
Payloads == { [mode |-> "site"], [mode |-> "pinterest"] }

\* const state = {...}
InitialState ==
    [ running   |-> FALSE,
      pid       |-> Null,
      startedAt |-> Null,
      endedAt   |-> Null,
      exitCode  |-> Null,
      lastError |-> Null,
      command   |-> Null,
      payload   |-> Null ]

\* What spawn() can do (node:child_process):
\*   "ok"     the process is created and has a pid
\*   "failed" the process cannot be created (ENOENT, EACCES, EAGAIN): spawn
\*            returns a child without pid, 'error' is emitted on the next
\*            tick and 'close' after it, with the negative errno as code
\*   "throw"  any other error: spawn throws synchronously
SpawnOutcomes == {"ok", "failed", "throw"}

\* How a created process ends: the code argument of its 'close' event.
\* 0 normal end, 1 process.exit(1) of run().catch, Null when a signal
\* (SIGKILL, SIGSEGV) terminated it.
ExitCodes == {Some(0), Some(1), Null}

\* the code 'close' carries after a failed spawn (negative errno)
SpawnErrno == 0 - 2

\* buildCrawlerArgs: the command line depends on the payload alone
buildCrawlerArgs(payload) == <<"src/crawler.js", "--mode", payload.mode>>

\* startCrawler, the assignments after spawn() has returned `child`
\* a start that leaves the end of the previous run in place
StartedKeepsEnd(s, payload, pid, t) ==
    [ s EXCEPT !.running   = TRUE,
               !.pid       = pid,
               !.startedAt = Some(t),
               !.lastError = Null,
               !.command   = Some(buildCrawlerArgs(payload)),
               !.payload   = Some(payload) ]

StartedState(s, payload, pid, t) ==
    [ s EXCEPT !.running   = TRUE,
               !.pid       = pid,
               !.startedAt = Some(t),
               !.endedAt   = Null,
               !.exitCode  = Null,
               !.lastError = Null,
               !.command   = Some(buildCrawlerArgs(payload)),
               !.payload   = Some(payload) ]

\* an error handler that also ends the run
OnErrorClearsRunning(s, msg) == [ s EXCEPT !.lastError = Some(msg), !.running = FALSE ]

\* child.on('error', ...)
OnError(s, msg) == [ s EXCEPT !.lastError = Some(msg) ]

\* child.on('close', ...)
OnClose(s, code, t) ==
    [ s EXCEPT !.running  = FALSE,
               !.pid      = Null,
               !.endedAt  = Some(t),
               !.exitCode = code ]

\* a start handler without its running test
NeverRunning(s) == FALSE

\* the test of the start handler, made when it resumes after the await
AlreadyRunning(s) == s.running

\* a 409 branch that records the rejection in the job state
RejectedRecordsError(s) == [ s EXCEPT !.lastError = Some("Crawler gia in esecuzione") ]

\* the 409 branch of the start handler: the state it leaves
RejectedState(s) == s

\* new Date() advances
Tick ==
    /\ now < MaxTime
    /\ now' = now + 1
    /\ UNCHANGED <<state, pending, nStarts, children, lastChild, nResponses, lastResp, statusResp, poll>>
    /\ JobOnly

\* POST /api/crawl/start arrives: the handler runs up to `await ensureDataPaths()`
StartRequest ==
    /\ nStarts < MaxStarts
    /\ \E p \in Payloads : pending' = pending \cup { [id |-> nStarts + 1, payload |-> p] }
    /\ nStarts' = nStarts + 1
    /\ UNCHANGED <<state, now, children, lastChild, nResponses, lastResp, statusResp, poll>>
    /\ JobOnly

\* ensureDataPaths() rejects (mkdir fails): the handler ends there
StartMkdirFails ==
    /\ \E r \in pending : pending' = pending \ {r}
    /\ UNCHANGED <<state, now, nStarts, children, lastChild, nResponses, lastResp, statusResp, poll>>
    /\ JobOnly

\* The handler resumes after the await and runs to its end without yielding:
\* the running test, then startCrawler and the response.
StartResume ==
    /\ \E r \in pending :
         /\ pending' = pending \ {r}
         /\ IF AlreadyRunning(state)
            THEN /\ state' = RejectedState(state)
                 /\ lastResp' = Some([id |-> r.id, status |-> 409, ok |-> FALSE,
                                       state |-> state'])
                 /\ nResponses' = nResponses + 1
                 /\ UNCHANGED <<children, lastChild>>
            ELSE \E out \in SpawnOutcomes :
                 IF out = "throw"
                 THEN \* spawn throws before any assignment: no response is sent
                      UNCHANGED <<state, children, lastChild, nResponses, lastResp>>
                 ELSE /\ children' = Append(children,
                             [ launch |-> out,
                               st     |-> IF out = "ok" THEN "alive" ELSE "errorPending",
                               code   |-> Null ])
                      /\ lastChild' = Len(children) + 1
                      /\ state' = StartedState(state, r.payload,
                             IF out = "ok" THEN Some(Len(children) + 1) ELSE Null, now)
                      /\ lastResp' = Some([id |-> r.id, status |-> 200, ok |-> TRUE,
                                            state |-> state'])
                      /\ nResponses' = nResponses + 1
         /\ UNCHANGED <<now, nStarts, statusResp, poll>>
    /\ JobOnly

\* the crawl unit's process ends (exit or signal); 'close' is then pending
ChildExits ==
    /\ \E c \in 1..Len(children), code \in ExitCodes :
         /\ children[c].st = "alive"
         /\ children' = [children EXCEPT ![c].st = "closePending", ![c].code = code]
         /\ UNCHANGED <<state, now, pending, nStarts, lastChild, nResponses, lastResp, statusResp, poll>>
    /\ JobOnly

\* 'error' is delivered for a child that could not be spawned
ChildError ==
    /\ \E c \in 1..Len(children) :
         /\ children[c].st = "errorPending"
         /\ children' = [children EXCEPT ![c].st = "closePending",
                                         ![c].code = Some(SpawnErrno)]
         /\ state' = OnError(state, "spawn failed")
         /\ UNCHANGED <<now, pending, nStarts, lastChild, nResponses, lastResp, statusResp, poll>>
    /\ JobOnly

\* 'close' is delivered
ChildClose ==
    /\ \E c \in 1..Len(children) :
         /\ children[c].st = "closePending"
         /\ children' = [children EXCEPT ![c].st = "closed"]
         /\ state' = OnClose(state, children[c].code, now)
         /\ UNCHANGED <<now, pending, nStarts, lastChild, nResponses, lastResp, statusResp, poll>>
    /\ JobOnly

JobInit ==
    /\ state = InitialState
    /\ now = 0
    /\ pending = {}
    /\ nStarts = 0
    /\ children = <<>>
    /\ lastChild = 0
    /\ nResponses = 0
    /\ lastResp = Null
    /\ statusResp = Null
    /\ poll = Null

-----------------------------------------------------------------------------
(*                  IMAGE INGESTOR (crawler.js downloadImages)             *)

\* candidates handed to one downloadImages call
MaxCandidates == 3
\* largest minWidth tried
MaxMinWidth == 2

\* The image locations of the modelled web that the candidate lists tried
\* are drawn from. Both have the base name "x".
Urls == {"http://a/x.jpg", "http://b/x.gif"}

\* Every image location of the modelled web: a whole run meets a third one.
Locations == Urls \cup {"http://c/x.png"}

\* What the origin server serves at a location, in its two versions: the
\* declared content-type <<type, subtype>>, what image-size decodes from the
\* bytes (width 0 stands for an undefined width), and the byte length.
Content(u, ver) ==
    IF u = "http://a/x.jpg"
    THEN IF ver = 0
         THEN [ctype |-> <<"image", "jpeg">>, type |-> "jpg", w |-> 2, h |-> 1, len |-> 4]
         ELSE [ctype |-> <<"image", "jpeg">>, type |-> "ico", w |-> 3, h |-> 1, len |-> 5]
    ELSE IF u = "http://b/x.gif"
    THEN IF ver = 0
         THEN [ctype |-> <<"image", "gif">>, type |-> "gif", w |-> 1, h |-> 1, len |-> 3]
         ELSE [ctype |-> <<"image", "x-icon">>, type |-> "svg", w |-> 0, h |-> 0, len |-> 3]
    ELSE [ctype |-> <<"image", "png">>, type |-> "png", w |-> 2, h |-> 2, len |-> 6]

\* crypto.createHash('sha1').update(imageUrl).digest('hex').slice(0, 10):
\* a digest of the location alone, distinct for the distinct locations
Sha1Prefix(u) ==
    IF u = "http://a/x.jpg" THEN "3f7a0c1d2e"
    ELSE IF u = "http://b/x.gif" THEN "b81e44f09a"
    ELSE "c40d9e7715"

\* sanitizeFilename(basename(pathname) without its extension)
SafeBase(u) == "x"

\* extensionFromImageType
extensionFromImageType(type) ==
    CASE type \in {"jpg", "jpeg"} -> ".jpg"
      [] type = "png"  -> ".png"
      [] type = "webp" -> ".webp"
      [] type = "gif"  -> ".gif"
      [] type = "svg"  -> ".svg"
      [] type = "bmp"  -> ".bmp"
      [] type = "tiff" -> ".tiff"
      [] type = "avif" -> ".avif"
      [] OTHER -> ""

\* extensionFromContentType
extensionFromContentType(ctype) ==
    CASE ctype = <<"image", "jpeg">> -> ".jpg"
      [] ctype = <<"image", "png">>  -> ".png"
      [] ctype = <<"image", "webp">> -> ".webp"
      [] ctype = <<"image", "gif">>  -> ".gif"
      [] ctype = <<"image", "svg+xml">> -> ".svg"
      [] ctype = <<"image", "bmp">>  -> ".bmp"
      [] ctype = <<"image", "tiff">> -> ".tiff"
      [] ctype = <<"image", "avif">> -> ".avif"
      [] OTHER -> ""

\* a filenameFromUrl that puts the time of the ingest into the name
filenameWithRun(u, type, ctype, w, h, run) ==
    <<Sha1Prefix(u), w, h, SafeBase(u), run>>

\* filenameFromUrl: `${hash}-${width}x${height}-${safeBase}${ext}`.
\* run is the ingest it is called in; the code does not use it.
filenameFromUrl(u, type, ctype, w, h, run) ==
    LET e1  == extensionFromImageType(type)
        e2  == extensionFromContentType(ctype)
        ext == IF e1 # "" THEN e1 ELSE IF e2 # "" THEN e2 ELSE ".img"
    IN  <<Sha1Prefix(u), w, h, SafeBase(u), ext>>

\* fetchImage: contentType.startsWith('image/')
IsImageType(ctype) == ctype[1] = "image"

\* recompressImage's test of the decoded type
Recompressible(type) == type \in {"jpg", "jpeg", "png", "webp", "avif", "tiff"}

\* the byte length recompressImage returns: a re-encoded image shrinks by one
\* byte here, any other passes through
RecompressedLen(c) == IF Recompressible(c.type) THEN c.len - 1 ELSE c.len

\* the size test without its `!size.width` half
IsSmallKnownOnly(w, mw) == w < mw

\* if (!size.width || size.width < minWidth)
IsSmall(w, mw) == w = 0 \/ w < mw

\* downloadedImages.has(imageUrl)
AlreadyDownloaded(seen, u) == u \in seen

\* What can go wrong while one candidate is processed:
\*   fetch      "throw" transport error; "bad" status outside 200..399
\*   decode     imageSize throws on undecodable bytes
\*   recompress sharp throws
\*   write      fs.writeFile rejects
\*   log        the log() call inside the try block rejects (fs.appendFile)
\*   catchLog   the log() call inside the catch block rejects
\* The steps run in sequence and the first failure leaves the try block, so
\* at most one step of the try block fails in one pass.
Faults ==
    { f \in [ fetch : {"ok", "bad", "throw"}, decode : {"ok", "throw"},
              recompress : {"ok", "throw"}, write : {"ok", "throw"},
              log : {"ok", "throw"}, catchLog : {"ok", "throw"} ] :
        /\ Cardinality({ k \in {"decode", "recompress", "write", "log"} :
                            f[k] = "throw" }) <= 1
        /\ f.fetch = "throw" =>
              f.decode = "ok" /\ f.recompress = "ok" /\ f.write = "ok" /\ f.log = "ok"
        /\ f.fetch = "bad" => f.decode = "ok" /\ f.recompress = "ok" /\ f.write = "ok" }

\* const stats = {...} at the top of downloadImages
InitialStats(urls) ==
    [ imagesFound        |-> Len(urls),
      imagesSaved        |-> 0,
      imagesSkippedSmall |-> 0,
      imagesFailed       |-> 0,
      imagesRecompressed |-> 0,
      bytesBefore        |-> 0,
      bytesAfter         |-> 0 ]

\* One outcome of the try block: the stats it leaves, the file it wrote, the
\* activity lines it appended, whether control went to the catch block, and
\* whether it fetched and what it decoded.
TryResult(st, wrote, lines, caught, decoded) ==
    [ stats |-> st, wrote |-> wrote, lines |-> lines, caught |-> caught,
      decoded |-> decoded ]

\* log(message) inside the try block: the line is appended, or the call rejects
\* and control goes to the catch block
TryLog(st, wrote, kind, u, f, decoded) ==
    IF f.log = "throw"
    THEN TryResult(st, wrote, <<>>, TRUE, decoded)
    ELSE TryResult(st, wrote, << [kind |-> kind, url |-> u] >>, FALSE, decoded)

\* the try block of the loop body, for candidate u serving content c
TryBlock(st, u, c, mw, f, run) ==
    IF f.fetch = "throw"
    THEN TryResult(st, Null, <<>>, TRUE, Null)
    ELSE IF f.fetch = "bad" \/ ~IsImageType(c.ctype)
    THEN TryLog([st EXCEPT !.imagesFailed = @ + 1], Null,
                "IMG failed_non_image_or_status", u, f, Null)
    ELSE IF f.decode = "throw"
    THEN TryResult(st, Null, <<>>, TRUE, Null)
    ELSE IF IsSmall(c.w, mw)
    THEN TryLog([st EXCEPT !.imagesSkippedSmall = @ + 1], Null,
                "IMG skipped_small", u, f, Some(c.w))
    ELSE LET st1 == [st EXCEPT !.bytesBefore = @ + c.len]
             st2 == [st1 EXCEPT !.bytesAfter = @ + RecompressedLen(c),
                                !.imagesRecompressed =
                                    IF Recompressible(c.type) THEN @ + 1 ELSE @]
             name == filenameFromUrl(u, c.type, c.ctype, c.w, c.h, run)
         IN  IF Recompressible(c.type) /\ f.recompress = "throw"
             THEN TryResult(st1, Null, <<>>, TRUE, Some(c.w))
             ELSE IF f.write = "throw"
             THEN TryResult(st2, Null, <<>>, TRUE, Some(c.w))
             ELSE TryLog([st2 EXCEPT !.imagesSaved = @ + 1], Some(name),
                         "IMG saved", u, f, Some(c.w))

\* the whole loop body for a candidate not yet in downloadedImages: the try
\* block, then the catch block when control reached it. threw: the log()
\* call of the catch block rejected, which ends downloadImages.
ProcessCandidate(st, u, c, mw, f, run) ==
    LET t == TryBlock(st, u, c, mw, f, run)
    IN  IF ~t.caught
        THEN [ stats |-> t.stats, wrote |-> t.wrote, lines |-> t.lines,
               threw |-> FALSE, decoded |-> t.decoded ]
        ELSE LET st1 == [t.stats EXCEPT !.imagesFailed = @ + 1]
             IN  [ stats |-> st1, wrote |-> t.wrote,
                   lines |-> IF f.catchLog = "throw" THEN <<>>
                             ELSE << [kind |-> "IMG error", url |-> u] >>,
                   threw |-> f.catchLog = "throw", decoded |-> t.decoded ]

RECURSIVE SeqsUpTo(_, _)
\* the sequences over S of length at most n
SeqsUpTo(S, n) ==
    IF n = 0 THEN { <<>> }
    ELSE LET shorter == SeqsUpTo(S, n - 1)
         IN  shorter \cup { Append(q, x) : q \in { r \in shorter : Len(r) = n - 1 }, x \in S }

\* for (const imageUrl of imageUrls) { if (downloadedImages.has(imageUrl)) continue; ...
IngestSkipDuplicate ==
    /\ ingestPc = "loop"
    /\ pos <= Len(imageUrls)
    /\ AlreadyDownloaded(downloadedImages, imageUrls[pos])
    /\ pos' = pos + 1
    /\ UNCHANGED <<imageUrls, minWidth, downloadedImages, stats, ingestPc, runNo, store,
                   version, activity, fetches, decodes, fileWrites, storeAfterFirst>>
    /\ IngestOnly

\* one pass of the loop body for a new location
IngestCandidate ==
    /\ ingestPc = "loop"
    /\ pos <= Len(imageUrls)
    /\ ~AlreadyDownloaded(downloadedImages, imageUrls[pos])
    /\ \E f \in Faults :
         LET u == imageUrls[pos]
             r == ProcessCandidate(stats, u, Content(u, version[u]), minWidth, f, runNo)
         IN  /\ downloadedImages' = downloadedImages \cup {u}
             /\ stats' = r.stats
             /\ activity' = activity \o r.lines
             /\ store' = IF r.wrote = Null THEN store ELSE store \cup {r.wrote[1]}
             /\ fetches' = [fetches EXCEPT ![u] = @ + 1]
             /\ decodes' = IF r.decoded = Null THEN decodes
                           ELSE decodes \cup { [url |-> u, w |-> r.decoded[1]] }
             /\ fileWrites' = IF r.wrote = Null THEN fileWrites
                              ELSE fileWrites \cup { [run |-> runNo, url |-> u,
                                                      ver |-> version[u],
                                                      name |-> r.wrote[1]] }
             /\ ingestPc' = IF r.threw THEN "threw" ELSE "loop"
             /\ pos' = IF r.threw THEN pos ELSE pos + 1
             /\ storeAfterFirst' = IF r.threw /\ runNo = 1 THEN store' ELSE storeAfterFirst
    /\ UNCHANGED <<imageUrls, minWidth, runNo, version>>
    /\ IngestOnly

\* return stats
IngestReturn ==
    /\ ingestPc = "loop"
    /\ pos > Len(imageUrls)
    /\ ingestPc' = "returned"
    /\ storeAfterFirst' = IF runNo = 1 THEN store ELSE storeAfterFirst
    /\ UNCHANGED <<imageUrls, minWidth, pos, downloadedImages, stats, runNo, store,
                   version, activity, fetches, decodes, fileWrites>>
    /\ IngestOnly

\* a later run ingests the same candidate list into the same content store
IngestAgain ==
    /\ ingestPc \in {"returned", "threw"}
    /\ runNo = 1
    /\ runNo' = 2
    /\ pos' = 1
    /\ downloadedImages' = {}
    /\ stats' = InitialStats(imageUrls)
    /\ ingestPc' = "loop"
    /\ activity' = <<>>
    /\ fetches' = [u \in Urls |-> 0]
    /\ decodes' = {}
    /\ UNCHANGED <<imageUrls, minWidth, store, version, fileWrites, storeAfterFirst>>
    /\ IngestOnly

\* the origin server starts serving other content at a location
ContentChanges ==
    /\ \E u \in Urls :
         /\ version[u] = 0
         /\ version' = [version EXCEPT ![u] = 1]
    /\ UNCHANGED <<imageUrls, minWidth, pos, downloadedImages, stats, ingestPc, runNo,
                   store, activity, fetches, decodes, fileWrites, storeAfterFirst>>
    /\ IngestOnly

IngestIdle ==
    /\ imageUrls = <<>>
    /\ minWidth = 0
    /\ pos = 1
    /\ downloadedImages = {}
    /\ stats = InitialStats(<<>>)
    /\ ingestPc = "returned"
    /\ runNo = 2
    /\ store = {}
    /\ version = [u \in Urls |-> 0]
    /\ activity = <<>>
    /\ fetches = [u \in Urls |-> 0]
    /\ decodes = {}
    /\ fileWrites = {}
    /\ storeAfterFirst = {}

IngestInit ==
    /\ imageUrls \in SeqsUpTo(Urls, MaxCandidates)
    /\ minWidth \in 0..MaxMinWidth
    /\ pos = 1
    /\ downloadedImages = {}
    /\ stats = InitialStats(imageUrls)
    /\ ingestPc = "loop"
    /\ runNo = 1
    /\ store = {}
    /\ version = [u \in Urls |-> 0]
    /\ activity = <<>>
    /\ fetches = [u \in Urls |-> 0]
    /\ decodes = {}
    /\ fileWrites = {}
    /\ storeAfterFirst = {}

IngestNext ==
    \/ IngestSkipDuplicate
    \/ IngestCandidate
    \/ IngestReturn
    \/ IngestAgain
    \/ ContentChanges

-----------------------------------------------------------------------------
(*                 SITE CRAWLER (crawler.js run(), mode site)              *)

\* largest --depth tried
MaxDepthBound == 2
\* anchors on one fetched page
MaxLinks == 2

\* An absolute URL. path "" is the spelling without the trailing slash
\* ("http://a"), which new URL(...).href turns into "/".
Url(proto, host, path, frag) ==
    [proto |-> proto, host |-> host, path |-> path, frag |-> frag]

\* What the anchors of the modelled pages resolve to (new URL(href, pageUrl)).
Hrefs ==
    { Url("http:", "a", "/", ""), Url("http:", "a", "/p", ""),
      Url("http:", "a", "/p", "#f"), Url("http:", "b", "/", ""),
      Url("mailto:", "", "x@a", "") }

\* The --url values tried: a normalized one, one without the trailing
\* slash, one with a fragment.
Seeds ==
    { Url("http:", "a", "/", ""), Url("http:", "a", "", ""),
      Url("http:", "a", "/p", "#f") }

\* normalizeUrl: new URL(raw, base).href
normalizeUrl(u) == IF u.path = "" THEN [u EXCEPT !.path = "/"] ELSE u

\* new URL(u).origin
Origin(u) == <<u.proto, u.host>>

\* parsed.hash = ''
StripHash(u) == [u EXCEPT !.frag = ""]

\* extractImageUrls: the image locations on the page a url serves (the
\* fragment is not part of the request)
ImagesOn(u) ==
    IF u.host = "a" /\ normalizeUrl(u).path = "/" THEN << "http://a/x.jpg" >>
    ELSE IF u.host = "a" THEN << "http://a/x.jpg", "http://b/x.gif" >>
    ELSE <<>>

\* a link filter without the origin test
KeepLinkAnyOrigin(full, pageUrl, sameOrigin) == full.proto \in {"http:", "https:"}

\* the filter of extractLinks for one resolved anchor
KeepLink(full, pageUrl, sameOrigin) ==
    /\ full.proto \in {"http:", "https:"}
    /\ ~(sameOrigin /\ Origin(full) # Origin(pageUrl))

RECURSIVE extractLinksFrom(_, _, _, _)
\* extractLinks: the anchors in document order, filtered, fragment-stripped,
\* collected in a Set (first occurrence keeps its place)
extractLinksFrom(hrefs, pageUrl, sameOrigin, acc) ==
    IF hrefs = <<>> THEN acc
    ELSE LET full == normalizeUrl(Head(hrefs))
             link == StripHash(full)
             seen == { acc[i] : i \in 1..Len(acc) }
         IN  extractLinksFrom(Tail(hrefs), pageUrl, sameOrigin,
                 IF KeepLink(full, pageUrl, sameOrigin) /\ link \notin seen
                 THEN Append(acc, link) ELSE acc)

extractLinks(hrefs, pageUrl, sameOrigin) == extractLinksFrom(hrefs, pageUrl, sameOrigin, <<>>)

\* if (!current || visitedPages.has(current.url) || current.depth > maxDepth) continue
SkipsPage(cur, visited, md) == cur.url \in visited \/ cur.depth > md

\* an expansion test that is off by one
ExpandsLinksInclusive(depth, md) == depth <= md

\* if (current.depth < maxDepth)
ExpandsLinks(depth, md) == depth < md

\* the depth links found on a page of this depth are enqueued at
LinkDepth(depth) == depth + 1

RECURSIVE PushLinks(_, _, _, _)
\* for (const link of links) if (!visitedPages.has(link)) queue.push(...)
PushLinks(q, links, visited, depth) ==
    IF links = <<>> THEN q
    ELSE PushLinks(IF Head(links) \notin visited
                   THEN Append(q, [url |-> Head(links), depth |-> depth])
                   ELSE q,
                   Tail(links), visited, depth)

\* What one page visit meets: the fetch ("html", "nonhtml": fetchHtml returned
\* null, "error": it threw), and whether the log() calls before and after the
\* fetch reject; a rejected log() is not caught and ends run().
PageOutcomes == [ fetch : {"html", "nonhtml", "error"},
                  logVisit : {"ok", "throw"}, logAfter : {"ok", "throw"} ]

\* the anchors of the page, where extractLinks gets to read them: the page
\* is HTML, no log() call rejected and the page is above maxDepth
AnchorsRead(o, depth, md) ==
    IF o.fetch = "html" /\ o.logVisit = "ok" /\ o.logAfter = "ok" /\ ExpandsLinks(depth, md)
    THEN SeqsUpTo(Hrefs, MaxLinks)
    ELSE { <<>> }

Line(kind, u) == [kind |-> kind, url |-> u]

\* const current = queue.shift(); if (...) continue;
CrawlSkip ==
    /\ crawlPc = "loop"
    /\ queue # <<>>
    /\ SkipsPage(Head(queue), visitedPages, maxDepth)
    /\ queue' = Tail(queue)
    /\ UNCHANGED <<maxDepth, sameOriginOnly, visitedPages, discoveredImages,
                   pagesVisited, crawlPc, startUrl, visits, linksFound, enqueued, activity>>
    /\ CrawlOnly

\* one pass of the while loop for a page that is visited
CrawlVisit ==
    /\ crawlPc = "loop"
    /\ queue # <<>>
    /\ ~SkipsPage(Head(queue), visitedPages, maxDepth)
    /\ \E o \in PageOutcomes :
       \E hrefs \in AnchorsRead(o, Head(queue).depth, maxDepth) :
         LET cur   == Head(queue)
             links == extractLinks(hrefs, cur.url, sameOriginOnly)
             kept  == SelectSeq(links, LAMBDA l : l \notin visitedPages')
         IN  /\ visitedPages' = visitedPages \cup {cur.url}
             /\ IF o.logVisit = "throw"
                THEN /\ crawlPc' = "fatal"
                     /\ queue' = Tail(queue)
                     /\ UNCHANGED <<discoveredImages, pagesVisited, visits, linksFound,
                                    enqueued, activity>>
                ELSE /\ visits' = Append(visits, [url |-> cur.url, depth |-> cur.depth,
                                                fetch |-> o.fetch])
                     /\ linksFound' =
                          IF o.fetch = "html" /\ o.logAfter = "ok"
                             /\ ExpandsLinks(cur.depth, maxDepth)
                          THEN linksFound \cup { [from |-> cur.depth, url |-> links[k]] :
                                                  k \in 1..Len(links) }
                          ELSE linksFound
                     /\ IF o.fetch # "html"
                        THEN /\ queue' = Tail(queue)
                             /\ crawlPc' = IF o.logAfter = "throw" THEN "fatal" ELSE "loop"
                             /\ activity' = activity \o << Line("SITE visit", cur.url) >>
                                    \o (IF o.logAfter = "throw" THEN <<>>
                                        ELSE << Line(IF o.fetch = "error"
                                                     THEN "SITE page_error"
                                                     ELSE "SITE skipped_non_html", cur.url) >>)
                             /\ UNCHANGED <<discoveredImages, pagesVisited, enqueued>>
                        ELSE /\ pagesVisited' = pagesVisited + 1
                             /\ discoveredImages' = discoveredImages \o ImagesOn(cur.url)
                             /\ IF o.logAfter = "throw"
                                THEN /\ crawlPc' = "fatal"
                                     /\ queue' = Tail(queue)
                                     /\ activity' = activity \o << Line("SITE visit", cur.url) >>
                                     /\ UNCHANGED enqueued
                                ELSE /\ crawlPc' = "loop"
                                     /\ activity' = activity \o
                                            << Line("SITE visit", cur.url),
                                               Line("SITE discovered", cur.url) >>
                                     /\ IF ExpandsLinks(cur.depth, maxDepth)
                                        THEN /\ queue' = PushLinks(Tail(queue), links,
                                                    visitedPages', LinkDepth(cur.depth))
                                             /\ enqueued' = enqueued \cup
                                                  { [from |-> cur.depth, url |-> kept[i],
                                                     depth |-> LinkDepth(cur.depth)] :
                                                    i \in 1..Len(kept) }
                                        ELSE /\ queue' = Tail(queue)
                                             /\ UNCHANGED enqueued
    /\ UNCHANGED <<maxDepth, sameOriginOnly, startUrl>>
    /\ CrawlOnly

\* the frontier is empty: run() goes on to downloadImages
CrawlDone ==
    /\ crawlPc = "loop"
    /\ queue = <<>>
    /\ crawlPc' = "ingest"
    /\ UNCHANGED <<maxDepth, sameOriginOnly, queue, visitedPages, discoveredImages,
                   pagesVisited, startUrl, visits, linksFound, enqueued, activity>>
    /\ CrawlOnly

CrawlIdle ==
    /\ maxDepth = 0
    /\ sameOriginOnly = TRUE
    /\ queue = <<>>
    /\ visitedPages = {}
    /\ discoveredImages = <<>>
    /\ pagesVisited = 0
    /\ crawlPc = "ingest"
    /\ startUrl = Url("http:", "a", "/", "")
    /\ visits = <<>>
    /\ linksFound = {}
    /\ enqueued = {}

\* const queue = [{ url: startUrl, depth: 0 }]
CrawlInit ==
    /\ maxDepth \in 0..MaxDepthBound
    /\ sameOriginOnly \in BOOLEAN
    /\ startUrl \in Seeds
    /\ queue = << [url |-> startUrl, depth |-> 0] >>
    /\ visitedPages = {}
    /\ discoveredImages = <<>>
    /\ pagesVisited = 0
    /\ crawlPc = "loop"
    /\ visits = <<>>
    /\ linksFound = {}
    /\ enqueued = {}

CrawlNext ==
    \/ CrawlSkip
    \/ CrawlVisit
    \/ CrawlDone

-----------------------------------------------------------------------------
(*          SCROLL COLLECTOR (pinterest-driver.js, part_002)               *)

\* An image url as page.evaluate returns it: a string starting with "http".
\* valid = FALSE is a string new URL() rejects; seg is the first path
\* segment ("236x", "474x" are thumbnail sizes), pin the rest of the path.
Img(valid, host, seg, pin) == [valid |-> valid, host |-> host, seg |-> seg, pin |-> pin]

RawUrls ==
    { Img(TRUE, "i.pinimg.com", "236x", "a.jpg"),
      Img(TRUE, "i.pinimg.com", "474x", "a.jpg"),
      Img(TRUE, "i.pinimg.com", "236x", "b.jpg"),
      Img(TRUE, "cdn.example", "236x", "a.jpg"),
      Img(FALSE, "", "", "") }

\* /\/(\d+x)\//
IsSizeSegment(seg) == seg \in {"236x", "474x"}

\* normalizePinterestImageUrl: Null for an unparsable url, the url itself
\* off pinimg.com, the /originals/ variant on pinimg.com
normalizePinterestImageUrl(raw) ==
    IF ~raw.valid THEN Null
    ELSE IF raw.host # "i.pinimg.com" THEN Some(raw)
    ELSE IF IsSizeSegment(raw.seg) THEN Some([raw EXCEPT !.seg = "originals"])
    ELSE Some(raw)

\* the urls a batch yields once normalized
NormalizedOf(b) ==
    { normalizePinterestImageUrl(b[i])[1] :
        i \in { j \in 1..Len(b) : normalizePinterestImageUrl(b[j]) # Null } }

\* Set.add on the insertion-ordered set
SetAdd(set, v) == IF \E i \in 1..Len(set) : set[i] = v THEN set ELSE Append(set, v)

\* a loop test that looks at the pass count only
LoopIgnoresSize(sc, size, ms, mi) == sc < ms

\* a loop test that allows one pass more
LoopOneMore(sc, size, ms, mi) == sc <= ms /\ size < mi

\* while (scroll < maxScrolls && found.size < maxImages)
LoopContinues(sc, size, ms, mi) == sc < ms /\ size < mi

\* a break test that stops one url late
BreaksAfterTarget(size, mi) == size > mi

\* if (found.size >= maxImages) break
BreaksAtTarget(size, mi) == size >= mi

\* what the steps before the loop can do: chromium.launch rejects; a later
\* step (newContext, newPage, log, page.goto) rejects; all succeed
OpenOutcomes == {"ok", "launchThrows", "logThrows", "gotoThrows"}

ScrollLine(kind, n, size, ads) == [kind |-> kind, n |-> n, collected |-> size, ads |-> ads]

\* import playwright ... the consent banner: part_002:39-68
ScrollOpen ==
    /\ scrollPc = "start"
    /\ \E o \in OpenOutcomes :
         /\ browser' = IF o = "launchThrows" THEN "none" ELSE "open"
         /\ activity' = IF o \in {"ok", "gotoThrows"}
                        THEN Append(activity, ScrollLine("PINTEREST open", 0, 0, 0))
                        ELSE activity
         /\ scrollPc' = IF o = "ok" THEN "loop" ELSE "threw"
    /\ UNCHANGED <<maxImages, maxScrolls, scroll, found, adsSkipped, batch, bi,
                   collected, passes, richRaw, richNorm>>
    /\ ScrollOnly

\* the loop test holds and page.evaluate is awaited: part_002:70-115
ScrollEvaluate ==
    /\ scrollPc = "loop"
    /\ LoopContinues(scroll, Len(found), maxScrolls, maxImages)
    /\ passes' = passes + 1
    /\ \/ /\ scrollPc' = "threw"
          /\ UNCHANGED <<batch, bi, adsSkipped, richRaw, richNorm>>
       \/ \E b \in SeqsUpTo(RawUrls, MaxBatch), ads \in 0..MaxAds :
            /\ batch' = b
            /\ bi' = 1
            /\ adsSkipped' = adsSkipped + ads
            /\ richRaw' = (richRaw /\ Cardinality({ b[i] : i \in 1..Len(b) }) >= maxImages)
            /\ richNorm' = (richNorm /\ Cardinality(NormalizedOf(b)) >= maxImages)
            /\ scrollPc' = IF Len(b) = 0 THEN "endpass" ELSE "inner"
    /\ UNCHANGED <<maxImages, maxScrolls, scroll, found, browser, collected, activity>>
    /\ ScrollOnly

\* one turn of `for (const raw of batch.urls)`: part_002:116-125
ScrollAdd ==
    /\ scrollPc = "inner"
    /\ LET normalized == normalizePinterestImageUrl(batch[bi])
           added == IF normalized = Null THEN found ELSE SetAdd(found, normalized[1])
           stop == normalized # Null /\ BreaksAtTarget(Len(added), maxImages)
       IN /\ found' = added
          /\ bi' = bi + 1
          /\ scrollPc' = IF stop \/ bi = Len(batch) THEN "endpass" ELSE "inner"
    /\ UNCHANGED <<maxImages, maxScrolls, scroll, adsSkipped, batch, browser, collected,
                   passes, richRaw, richNorm, activity>>
    /\ ScrollOnly

\* the end of a pass: the scroll line, the wheel, the sleep: part_002:127-130
ScrollEndPass ==
    /\ scrollPc = "endpass"
    /\ \E o \in {"ok", "logThrows", "wheelThrows"} :
         /\ activity' = IF o = "logThrows" THEN activity
                        ELSE Append(activity, ScrollLine("PINTEREST scroll", scroll + 1,
                                                         Len(found), adsSkipped))
         /\ scroll' = IF o = "ok" THEN scroll + 1 ELSE scroll
         /\ scrollPc' = IF o = "ok" THEN "loop" ELSE "threw"
    /\ batch' = <<>>
    /\ bi' = 0
    /\ UNCHANGED <<maxImages, maxScrolls, found, adsSkipped, browser, collected,
                   passes, richRaw, richNorm>>
    /\ ScrollOnly

\* the loop test fails: close and return, part_002:133-145
ScrollReturn ==
    /\ scrollPc = "loop"
    /\ ~LoopContinues(scroll, Len(found), maxScrolls, maxImages)
    /\ \/ /\ browser' = "closed"
          /\ scrollPc' = "returned"
          /\ collected' = Some([ imageUrls |-> found,
                                 stats |-> [ scrolls |-> scroll,
                                             collected |-> Len(found),
                                             adsSkipped |-> adsSkipped,
                                             maxImages |-> maxImages,
                                             maxScrolls |-> maxScrolls ] ])
       \/ /\ scrollPc' = "threw"          \* context.close() rejects
          /\ UNCHANGED <<browser, collected>>
    /\ UNCHANGED <<maxImages, maxScrolls, scroll, found, adsSkipped, batch, bi,
                   passes, richRaw, richNorm, activity>>
    /\ ScrollOnly

\* no collection in progress
ScrollIdle ==
    /\ maxImages = 0
    /\ maxScrolls = 0
    /\ scroll = 0
    /\ found = <<>>
    /\ adsSkipped = 0
    /\ batch = <<>>
    /\ bi = 0
    /\ scrollPc = "returned"
    /\ browser = "none"
    /\ collected = Null
    /\ passes = 0
    /\ richRaw = TRUE
    /\ richNorm = TRUE

\* collect is called: Number(args['max-images'] || 120), part_001:341-342
ScrollInit ==
    /\ maxImages \in 0..MaxImagesBound
    /\ maxScrolls \in 0..MaxScrollsBound
    /\ scroll = 0
    /\ found = <<>>
    /\ adsSkipped = 0
    /\ batch = <<>>
    /\ bi = 0
    /\ scrollPc = "start"
    /\ browser = "none"
    /\ collected = Null
    /\ passes = 0
    /\ richRaw = TRUE
    /\ richNorm = TRUE

ScrollNext ==
    \/ ScrollOpen
    \/ ScrollEvaluate
    \/ ScrollAdd
    \/ ScrollEndPass
    \/ ScrollReturn

-----------------------------------------------------------------------------
(*               PROGRESS ESTIMATOR (server.js, buildProgress)             *)

\* the clock-skew tolerance of the line filter, in ms
SkewMs == 1000

\* readTail(ACTIVITY_LOG_PATH, 4000)
TailLines == 4000

Max(a, b) == IF a >= b THEN a ELSE b

Min(a, b) == IF a <= b THEN a ELSE b

\* Math.round(a / b) for b > 0: the nearest integer, halves upwards
Round(a, b) == (2 * a + b) \div (2 * b)

(* JavaScript numbers are IEEE-754 doubles. A positive double is held as   *)
(* [e, d]: the value (1 + d[1]/B + d[2]/B^2 + d[3]/B^3 + d[4]/B^4) * 2^e    *)
(* with B = 2^13, that is a 53-bit significand in four 13-bit digits after *)
(* the leading 1. Every operation rounds to nearest, ties to even.         *)

LimbBase == 2 ^ 13

RECURSIVE Log2(_)
\* the position of the highest set bit of n >= 1
Log2(n) == IF n < 2 THEN 0 ELSE 1 + Log2(n \div 2)

RECURSIVE NormExp(_, _)
\* the exponent e with b * 2^e <= a < b * 2^(e+1), for a, b >= 1
NormExp(a, b) ==
    IF a >= 2 * b THEN NormExp(a, 2 * b) + 1
    ELSE IF a < b THEN NormExp(2 * a, b) - 1
    ELSE 0

\* the next double above x
RoundUp(x) ==
    LET B == LimbBase
        d == x.d
    IN  IF d[4] + 1 < B THEN [x EXCEPT !.d = <<d[1], d[2], d[3], d[4] + 1>>]
        ELSE IF d[3] + 1 < B THEN [x EXCEPT !.d = <<d[1], d[2], d[3] + 1, 0>>]
        ELSE IF d[2] + 1 < B THEN [x EXCEPT !.d = <<d[1], d[2] + 1, 0, 0>>]
        ELSE IF d[1] + 1 < B THEN [x EXCEPT !.d = <<d[1] + 1, 0, 0, 0>>]
        ELSE [e |-> x.e + 1, d |-> <<0, 0, 0, 0>>]

\* a / b in doubles, for integers a, b >= 1: long division to 53 bits, the
\* remainder deciding the rounding
DivDouble(a, b) ==
    LET B == LimbBase
        e == NormExp(a, b)
        num == IF e < 0 THEN a * 2 ^ (0 - e) ELSE a
        den == IF e > 0 THEN b * 2 ^ e ELSE b
        r0 == num - den
        d1 == (r0 * B) \div den
        r1 == (r0 * B) % den
        d2 == (r1 * B) \div den
        r2 == (r1 * B) % den
        d3 == (r2 * B) \div den
        r3 == (r2 * B) % den
        d4 == (r3 * B) \div den
        r4 == (r3 * B) % den
        q == [e |-> e, d |-> <<d1, d2, d3, d4>>]
    IN  IF 2 * r4 > den \/ (2 * r4 = den /\ d4 % 2 = 1) THEN RoundUp(q) ELSE q

\* x * c in doubles, for a double x and an integer 1 <= c < 2^13: the exact
\* product, then its low bits rounded away
MulDouble(x, c) ==
    LET B == LimbBase
        v4 == x.d[4] * c
        v3 == x.d[3] * c + (v4 \div B)
        v2 == x.d[2] * c + (v3 \div B)
        v1 == x.d[1] * c + (v2 \div B)
        lead == c + (v1 \div B)
        k == Log2(lead)
        s == 2 ^ k
        n1 == (lead % s) * B + (v1 % B)
        n2 == (n1 % s) * B + (v2 % B)
        n3 == (n2 % s) * B + (v3 % B)
        n4 == (n3 % s) * B + (v4 % B)
        p4 == n4 \div s
        dropped == n4 % s
        y == [e |-> x.e + k, d |-> <<n1 \div s, n2 \div s, n3 \div s, p4>>]
    IN  IF 2 * dropped > s \/ (2 * dropped = s /\ p4 % 2 = 1) THEN RoundUp(y) ELSE y

RECURSIVE TopBits(_, _, _, _)
\* the integer made of acc followed by the next `need` bits of the digits
\* d[i], d[i+1], ...
TopBits(d, i, need, acc) ==
    IF need = 0 \/ i > 4 THEN acc
    ELSE IF need >= 13 THEN TopBits(d, i + 1, need - 13, acc * LimbBase + d[i])
    ELSE acc * 2 ^ need + (d[i] \div 2 ^ (13 - need))

\* Math.round(x) for a double 0 < x < 2^28: floor(x + 1/2), from floor(2x)
RoundDouble(x) ==
    LET twice == IF x.e + 2 <= 0 THEN 0 ELSE TopBits(x.d, 1, x.e + 1, 1)
    IN  (twice + 1) \div 2

\* Math.round(a * c / b), the quotient computed exactly
MulDivRoundExact(a, b, c) == (2 * a * c + b) \div (2 * b)

\* Math.round((a / b) * c) for integers a >= 0, b >= 1, c >= 1
MulDivRound(a, b, c) ==
    IF a = 0 THEN 0 ELSE RoundDouble(MulDouble(DivDouble(a, b), c))

\* the start time of the run the estimator looks at, in ms
T0 == 2 * SkewMs

\* the counts written in 'PINTEREST scroll=.. collected=N' and
\* 'PINTEREST collected_total=N' lines
CountValues == {0, 1, 3}

\* the messages of the activity log: kind is the text before the arguments
OutcomeKinds == {"IMG saved", "IMG skipped_small", "IMG failed_non_image_or_status",
                 "IMG error"}

Messages ==
    { [kind |-> k, n |-> 0] : k \in OutcomeKinds \cup {"RUN start"} }
      \cup { [kind |-> k, n |-> n] :
               k \in {"PINTEREST scroll", "PINTEREST collected_total"}, n \in CountValues }

\* how a line starts: without "[...]" prefix; with the stamp of a moment just
\* before the tolerance window; with the stamp of the window's first moment
Stamps ==
    { [bracket |-> FALSE, date |-> Null],
      [bracket |-> TRUE, date |-> Some(T0 - SkewMs - 1)],
      [bracket |-> TRUE, date |-> Some(T0 - SkewMs)] }

LogLineSet ==
    { [bracket |-> st.bracket, date |-> st.date, kind |-> m.kind, n |-> m.n] :
        st \in Stamps, m \in Messages }

\* readTail: the last maxLines lines
readTail(lines, maxLines) == SubSeq(lines, Max(1, Len(lines) - maxLines + 1), Len(lines))

\* parseLogLine: no match gives timestamp null and the whole line as message
parseLogLine(line) ==
    [ timestamp |-> IF line.bracket THEN line.date ELSE Null,
      message   |-> [kind |-> line.kind, n |-> line.n] ]

\* a line filter without the tolerance
IsStaleNoTolerance(ts, startedAtMs) == ts # Null /\ ts[1] # 0 /\ ts[1] < startedAtMs

\* parsed.timestamp && ... && parsed.timestamp < startedAtMs - 1000
IsStale(ts, startedAtMs) == ts # Null /\ ts[1] # 0 /\ ts[1] < startedAtMs - SkewMs

\* a failed test that knows one kind only
CountsAsFailedStatusOnly(kind) == kind = "IMG failed_non_image_or_status"

\* startsWith('IMG failed_non_image_or_status') || startsWith('IMG error')
CountsAsFailed(kind) == kind \in {"IMG failed_non_image_or_status", "IMG error"}

\* let saved = 0 ... collectedTotal = 0
ZeroTally == [saved |-> 0, skipped |-> 0, failed |-> 0, collected |-> 0, collectedTotal |-> 0]

\* the body of `for (const line of logs)` for one line
ScanLine(acc, line, startedAtMs) ==
    LET parsed == parseLogLine(line)
        k == parsed.message.kind
        n == parsed.message.n
    IN  IF IsStale(parsed.timestamp, startedAtMs) THEN acc
        ELSE [ saved   |-> IF k = "IMG saved" THEN acc.saved + 1 ELSE acc.saved,
               skipped |-> IF k = "IMG skipped_small" THEN acc.skipped + 1 ELSE acc.skipped,
               failed  |-> IF CountsAsFailed(k) THEN acc.failed + 1 ELSE acc.failed,
               collected |-> IF k = "PINTEREST scroll" THEN Max(acc.collected, n)
                             ELSE acc.collected,
               collectedTotal |-> IF k = "PINTEREST collected_total"
                                  THEN Max(acc.collectedTotal, n)
                                  ELSE acc.collectedTotal ]

RECURSIVE ScanFrom(_, _, _, _)
\* the loop over the lines, from line i on
ScanFrom(logs, i, startedAtMs, acc) ==
    IF i > Len(logs) THEN acc
    ELSE ScanFrom(logs, i + 1, startedAtMs, ScanLine(acc, logs[i], startedAtMs))

\* payload.maxImages || 0
DeclaredMax(payload) == IF "maxImages" \in DOMAIN payload THEN payload.maxImages ELSE 0

\* a target computed for every mode
TargetAnyMode(mode, payload, t) ==
    IF t.collectedTotal > 0 THEN t.collectedTotal
    ELSE IF t.collected > 0 THEN Max(DeclaredMax(payload), t.collected)
    ELSE DeclaredMax(payload)

\* the target of lines 199-207
TargetOf(mode, payload, t) ==
    IF mode # "pinterest" THEN 0
    ELSE IF t.collectedTotal > 0 THEN t.collectedTotal
    ELSE IF t.collected > 0 THEN Max(DeclaredMax(payload), t.collected)
    ELSE DeclaredMax(payload)

\* target > 0 ? Math.min(100, Math.round((processed / target) * 100)) : null
PercentOf(processed, target) ==
    IF target > 0 THEN Some(Min(100, MulDivRound(processed, target, 100))) ELSE Null

\* lines 211-218: the estimate while running, 0 once ended with a percent
EtaOf(running, target, processed, elapsedSec, percent) ==
    LET etaRunning ==
            IF running /\ target > 0 /\ processed > 0 /\ processed < target
            THEN Some(MulDivRound(elapsedSec, processed, target - processed))
            ELSE Null
    IN  IF ~running /\ percent # Null THEN Some(0) ELSE etaRunning

\* buildProgress, given the job state, Date.now() and the lines read
buildProgress(s, nowRead, logs) ==
    IF s.startedAt = Null THEN Null
    ELSE
      LET startedAtMs == s.startedAt[1]
          endedAtMs == s.endedAt
          nowMs == IF endedAtMs # Null /\ endedAtMs[1] # 0 THEN endedAtMs[1] ELSE nowRead
          elapsedSec == Max(0, Round(nowMs - startedAtMs, 1000))
          payload == s.payload[1]
          mode == payload.mode
          t == ScanFrom(logs, 1, startedAtMs, ZeroTally)
          processed == t.saved + t.skipped + t.failed
          target == TargetOf(mode, payload, t)
          percent == PercentOf(processed, target)
          etaSec == EtaOf(s.running, target, processed, elapsedSec, percent)
      IN  Some([ mode       |-> mode,
                 processed  |-> processed,
                 saved      |-> t.saved,
                 skipped    |-> t.skipped,
                 failed     |-> t.failed,
                 collected  |-> t.collected,
                 target     |-> IF target > 0 THEN Some(target) ELSE Null,
                 percent    |-> percent,
                 elapsedSec |-> Some(elapsedSec),
                 etaSec     |-> etaSec ])

\* the elapsed seconds the arithmetic is tried on
ElapsedValues == {0, 3, 15}

\* the values the locals can have before line 209
EstimateInputs ==
    [ processed : 0..MaxProcessed, target : 0..MaxTarget,
      elapsedSec : ElapsedValues, running : BOOLEAN ]

\* lines 209-218 applied to the locals
Estimate ==
    /\ estOut = Null
    /\ LET percent == PercentOf(estIn.processed, estIn.target)
       IN  estOut' = Some([ percent |-> percent,
                            etaSec  |-> EtaOf(estIn.running, estIn.target, estIn.processed,
                                              estIn.elapsedSec, percent) ])
    /\ UNCHANGED estIn
    /\ EstimateOnly

\* no arithmetic under way
EstimateIdle ==
    /\ estIn = [processed |-> 0, target |-> 0, elapsedSec |-> 0, running |-> FALSE]
    /\ estOut = Null

EstimateInit ==
    /\ estIn \in EstimateInputs
    /\ estOut = Null

EstimateNext == Estimate

\* the request bodies of the runs the estimator is asked about
ProgressPayloads == Payloads \cup { [mode |-> "pinterest", maxImages |-> MaxImagesBound] }

\* the job states the estimator can find: no run yet, a run in progress, a
\* run that has ended
ProgressStates ==
    {InitialState}
      \cup { StartedState(InitialState, p, Some(1), T0) : p \in ProgressPayloads }
      \cup { OnClose(StartedState(InitialState, p, Some(1), T0), Some(0), T0 + 3 * SkewMs) :
               p \in ProgressPayloads }

\* the crawl unit (of this run or an earlier one) appends a line to the log
AppendLine ==
    /\ ~polled
    /\ Len(logLines) < MaxLogLines
    /\ \E l \in LogLineSet : logLines' = Append(logLines, l)
    /\ UNCHANGED <<polled, progress, tally>>
    /\ ProgressOnly

\* GET /api/crawl/status calls buildProgress
ProgressPoll ==
    /\ ~polled
    /\ polled' = TRUE
    /\ progress' = buildProgress(state, now, readTail(logLines, TailLines))
    /\ tally' = IF state.startedAt = Null THEN Null
                ELSE Some(ScanFrom(readTail(logLines, TailLines), 1, state.startedAt[1],
                                   ZeroTally))
    /\ UNCHANGED logLines
    /\ ProgressOnly

\* the estimator has not been asked
ProgressIdle ==
    /\ logLines = <<>>
    /\ polled = FALSE
    /\ progress = Null
    /\ tally = Null

ProgressNext ==
    \/ AppendLine
    \/ ProgressPoll

-----------------------------------------------------------------------------
(*              STATUS ROUTE (server.js, GET /api/crawl/status)            *)

\* What buildProgress has read when it suspends at `await readTail(...)`:
\* state.startedAt, state.endedAt, Date.now() and state.payload, lines
\* 157-162. run is history: the crawl unit the job state then described.
ReadBefore(s, nowRead, run) ==
    [ startedAt |-> s.startedAt, endedAt |-> s.endedAt, payload |-> s.payload,
      nowRead |-> nowRead, run |-> run ]

\* The value buildProgress returns when it resumes with the lines read:
\* the fields read before the await, state.running read now (lines 211, 216)
progressOf(before, s, logs) ==
    buildProgress([s EXCEPT !.startedAt = before.startedAt,
                            !.endedAt   = before.endedAt,
                            !.payload   = before.payload],
                  before.nowRead, logs)

\* The status handler writes nothing the server keeps, so status requests do
\* not affect one another: one request is followed, arriving at any moment.
\* GET /api/crawl/status arrives and no run was ever started: buildProgress
\* returns null at line 154 without awaiting I/O, the handler answers
StatusNoRun ==
    /\ poll = Null
    /\ statusResp = Null
    /\ state.startedAt = Null
    /\ statusResp' = Some([ state |-> state, progress |-> Null,
                            readRun |-> lastChild, flagRun |-> lastChild ])
    /\ UNCHANGED <<state, now, pending, nStarts, children, lastChild, nResponses,
                   lastResp, poll>>
    /\ JobOnly

\* GET /api/crawl/status arrives: buildProgress runs up to `await readTail`
StatusRequest ==
    /\ poll = Null
    /\ statusResp = Null
    /\ state.startedAt # Null
    /\ poll' = Some(ReadBefore(state, now, lastChild))
    /\ UNCHANGED <<state, now, pending, nStarts, children, lastChild, nResponses,
                   lastResp, statusResp>>
    /\ JobOnly

\* readTail settles: buildProgress runs to its end and the handler sends
\* res.json({ ...state, progress }), lines 164-232 and 280
StatusResume ==
    /\ poll # Null
    /\ statusResp' = Some([ state    |-> state,
                            progress |-> progressOf(poll[1], state,
                                                    readTail(logLines, TailLines)),
                            readRun  |-> poll[1].run,
                            flagRun  |-> lastChild ])
    /\ poll' = Null
    /\ UNCHANGED <<state, now, pending, nStarts, children, lastChild, nResponses, lastResp>>
    /\ JobOnly

JobNext ==
    \/ Tick
    \/ StartRequest
    \/ StartMkdirFails
    \/ StartResume
    \/ ChildExits
    \/ ChildError
    \/ ChildClose
    \/ StatusNoRun
    \/ StatusRequest
    \/ StatusResume

-----------------------------------------------------------------------------
(*                 ONE RUN OF THE CRAWL UNIT (crawler.js run())            *)

\* a logger that writes the end line whichever line it is asked for
RunLineEndOnly(kind) == [kind |-> "RUN end"]

\* a 'RUN ...' line of the activity record
RunLine(kind) == [kind |-> kind]

\* `PINTEREST collected_total=${imagesFound}`
TotalLine(n) == [kind |-> "PINTEREST collected_total", total |-> n]

\* The string of a collected url: the feed of the modelled web shows the
\* three image locations, each under the urls that normalize to it.
LocationOf(img) ==
    IF img.host # "i.pinimg.com" THEN "http://c/x.png"
    ELSE IF img.pin = "a.jpg" THEN "http://a/x.jpg"
    ELSE "http://b/x.gif"

\* collected.imageUrls as downloadImages receives it
LocationsOf(set) == [i \in 1..Len(set) |-> LocationOf(set[i])]

\* stats: {...commonStats, imagesFound} with the counters copied from
\* downloadStats, part_001:435-440 and 455-458
ReportOf(mode, pages, nFound, st) ==
    [ mode |-> mode,
      stats |-> [ pagesVisited       |-> pages,
                  imagesFound        |-> nFound,
                  imagesSaved        |-> st.imagesSaved,
                  imagesSkippedSmall |-> st.imagesSkippedSmall,
                  imagesFailed       |-> st.imagesFailed,
                  imagesRecompressed |-> st.imagesRecompressed,
                  bytesBefore        |-> st.bytesBefore,
                  bytesAfter         |-> st.bytesAfter ] ]

\* run() up to its first line: ensureDir, buildClient and the 'RUN start'
\* log() call; any of them can reject: part_001:350-367
RunStart ==
    /\ runPc = "start"
    /\ \E o \in {"ok", "setupThrows", "logThrows"} :
         /\ activity' = IF o = "ok" THEN Append(activity, RunLine("RUN start"))
                        ELSE activity
         /\ runPc' = IF o = "ok" THEN "discover" ELSE "fatal"
    /\ UNCHANGED <<runMode, report, jobVars, imageUrls, minWidth, pos, downloadedImages,
                   stats, ingestPc, runNo, store, version, fetches, decodes, fileWrites,
                   storeAfterFirst, crawlVars, scrollVars, progressVars, estVars>>

\* mode site: one turn of the while loop, part_001:390-431
RunCrawl ==
    /\ runPc = "discover"
    /\ runMode = "site"
    /\ (CrawlSkip \/ CrawlVisit \/ CrawlDone)

\* mode pinterest: one step of collectPinterestImageUrls, part_001:370-377
RunScroll ==
    /\ runPc = "discover"
    /\ runMode = "pinterest"
    /\ ScrollNext

\* the start of downloadImages over the list urls
BeginIngest(urls) ==
    /\ imageUrls' = urls
    /\ pos' = 1
    /\ downloadedImages' = {}
    /\ stats' = InitialStats(urls)
    /\ ingestPc' = "loop"
    /\ runNo' = 1

\* mode site, after the loop: imagesFound = discoveredImages.length and
\* downloadImages is called, part_001:433-434
RunSiteIngest ==
    /\ runPc = "discover"
    /\ runMode = "site"
    /\ crawlPc = "ingest"
    /\ BeginIngest(discoveredImages)
    /\ runPc' = "ingest"
    /\ UNCHANGED <<runMode, report, jobVars, minWidth, store, version, activity, fetches,
                   decodes, fileWrites, storeAfterFirst, crawlVars, scrollVars,
                   progressVars, estVars>>

\* mode pinterest, collect has returned: pagesVisited = 1, the
\* collected_total line, downloadImages is called, part_001:378-382
RunCollected ==
    /\ runPc = "discover"
    /\ runMode = "pinterest"
    /\ scrollPc = "returned"
    /\ pagesVisited' = 1
    /\ \/ /\ activity' = Append(activity, TotalLine(Len(found)))
          /\ BeginIngest(LocationsOf(found))
          /\ runPc' = "ingest"
       \/ /\ runPc' = "fatal"              \* the log() call rejects
          /\ UNCHANGED <<activity, imageUrls, pos, downloadedImages, stats, ingestPc, runNo>>
    /\ UNCHANGED <<runMode, report, jobVars, minWidth, store, version, fetches, decodes,
                   fileWrites, storeAfterFirst, maxDepth, sameOriginOnly, queue,
                   visitedPages, discoveredImages, crawlPc, startUrl, visits, linksFound,
                   enqueued, scrollVars, progressVars, estVars>>

\* one turn of the for-of loop of downloadImages, or its return
RunIngest ==
    /\ runPc = "ingest"
    /\ (IngestSkipDuplicate \/ IngestCandidate \/ IngestReturn)

\* downloadImages has returned: writeMetadata, part_001:443-459
RunWriteReport ==
    /\ runPc = "ingest"
    /\ ingestPc = "returned"
    /\ \/ /\ report' = Some(ReportOf(runMode, pagesVisited, Len(imageUrls), stats))
          /\ runPc' = "end"
       \/ /\ runPc' = "fatal"              \* fs.writeFile rejects
          /\ UNCHANGED report
    /\ UNCHANGED <<runMode, jobVars, ingestVars, crawlVars, scrollVars, progressVars, estVars>>

\* await log(`RUN end ...`), part_001:461
RunEnd ==
    /\ runPc = "end"
    /\ \/ /\ activity' = Append(activity, RunLine("RUN end"))
          /\ runPc' = "done"
       \/ /\ runPc' = "fatal"              \* the log() call rejects
          /\ UNCHANGED activity
    /\ UNCHANGED <<runMode, report, jobVars, imageUrls, minWidth, pos, downloadedImages,
                   stats, ingestPc, runNo, store, version, fetches, decodes, fileWrites,
                   storeAfterFirst, crawlVars, scrollVars, progressVars, estVars>>

\* a promise awaited by run() rejected during discovery or ingestion:
\* run().catch(...) prints [FATAL] and calls process.exit(1), part_001:475-478
RunFatal ==
    /\ \/ runPc = "discover" /\ runMode = "site" /\ crawlPc = "fatal"
       \/ runPc = "discover" /\ runMode = "pinterest" /\ scrollPc = "threw"
       \/ runPc = "ingest" /\ ingestPc = "threw"
    /\ runPc' = "fatal"
    /\ UNCHANGED <<runMode, report, jobVars, ingestVars, crawlVars, scrollVars,
                   progressVars, estVars>>

\* no run in progress
RunIdle ==
    /\ runMode = "site"
    /\ runPc = "idle"
    /\ report = Null

\* the minWidth values whole runs are tried with
RunWidths == {0, 2}

\* the --depth values whole runs are tried with
RunDepths == {0, 1}

\* the --max-images values whole runs are tried with
RunTargets == {2}

\* the --max-scrolls values whole runs are tried with
RunScrolls == {1, 2}

\* run() is entered, in either mode, with its arguments parsed
RunInit ==
    /\ runMode \in {"site", "pinterest"}
    /\ runPc = "start"
    /\ report = Null
    /\ IF runMode = "site"
       THEN /\ maxDepth \in RunDepths
            /\ sameOriginOnly = TRUE
            /\ startUrl \in Seeds
            /\ queue = << [url |-> startUrl, depth |-> 0] >>
            /\ visitedPages = {}
            /\ discoveredImages = <<>>
            /\ pagesVisited = 0
            /\ crawlPc = "loop"
            /\ visits = <<>>
            /\ linksFound = {}
            /\ enqueued = {}
            /\ ScrollIdle
       ELSE /\ CrawlIdle
            /\ maxImages \in RunTargets
            /\ maxScrolls \in RunScrolls
            /\ scroll = 0
            /\ found = <<>>
            /\ adsSkipped = 0
            /\ batch = <<>>
            /\ bi = 0
            /\ scrollPc = "start"
            /\ browser = "none"
            /\ collected = Null
            /\ passes = 0
            /\ richRaw = TRUE
            /\ richNorm = TRUE
    /\ imageUrls = <<>>
    /\ minWidth \in RunWidths
    /\ pos = 1
    /\ downloadedImages = {}
    /\ stats = InitialStats(<<>>)
    /\ ingestPc = "returned"
    /\ runNo = 1
    /\ store = {}
    /\ version = [u \in Locations |-> 0]
    /\ activity = <<>>
    /\ fetches = [u \in Locations |-> 0]
    /\ decodes = {}
    /\ fileWrites = {}
    /\ storeAfterFirst = {}

RunNext ==
    \/ RunStart
    \/ RunCrawl
    \/ RunScroll
    \/ RunSiteIngest
    \/ RunCollected
    \/ RunIngest
    \/ RunWriteReport
    \/ RunEnd
    \/ RunFatal

-----------------------------------------------------------------------------
(*       A SCROLL-MODE JOB TO ITS END, THEN ASKED FOR ITS PROGRESS         *)

\* createLogger: `[${new Date().toISOString()}] ${message}`, the line of the
\* activity record as it stands in the log file, written at time stamp
LogOf(l, stamp) ==
    [ bracket |-> TRUE,
      date    |-> Some(stamp),
      kind    |-> l.kind,
      n       |-> IF l.kind = "PINTEREST scroll" THEN l.collected
                  ELSE IF l.kind = "PINTEREST collected_total" THEN l.total
                  ELSE 0 ]

\* activity.log: fs.appendFile never truncates it, so the lines an earlier
\* run left (logLines) precede the lines of this run, which are stamped
\* after the job's startedAt
LogFile == logLines \o [i \in 1..Len(activity) |-> LogOf(activity[i], T0)]

\* What an earlier run can have left at the end of the log file: nothing;
\* lines older than the tolerance window; an outcome line or a
\* collected_total line written in the last second before this job started.
EarlierLines ==
    { <<>>,
      << [bracket |-> TRUE, date |-> Some(T0 - SkewMs - 1),
          kind |-> "PINTEREST collected_total", n |-> 3],
         [bracket |-> TRUE, date |-> Some(T0 - SkewMs - 1), kind |-> "IMG saved", n |-> 0] >>,
      << [bracket |-> TRUE, date |-> Some(T0 - SkewMs), kind |-> "IMG saved", n |-> 0] >>,
      << [bracket |-> TRUE, date |-> Some(T0 - SkewMs),
          kind |-> "PINTEREST collected_total", n |-> 3] >> }

\* the crawl unit's process has ended, by the end of run() or by
\* process.exit(1): 'close' is delivered with its exit code
FinishClose ==
    /\ runPc \in {"done", "fatal"}
    /\ state.running
    /\ now' = now + 3 * SkewMs
    /\ state' = OnClose(state, Some(IF runPc = "done" THEN 0 ELSE 1), now')
    /\ UNCHANGED <<pending, nStarts, children, lastChild, nResponses, lastResp,
                   statusResp, poll, ingestVars, crawlVars, scrollVars, progressVars,
                   estVars, runVars>>

\* GET /api/crawl/status after the job has ended: buildProgress over the
\* log file; no start is accepted meanwhile
FinishPoll ==
    /\ ~state.running
    /\ ~polled
    /\ polled' = TRUE
    /\ progress' = buildProgress(state, now, readTail(LogFile, TailLines))
    /\ tally' = Some(ScanFrom(readTail(LogFile, TailLines), 1, state.startedAt[1], ZeroTally))
    /\ UNCHANGED <<logLines, jobVars, ingestVars, crawlVars, scrollVars, estVars, runVars>>

\* POST /api/crawl/start {mode: 'pinterest', maxImages} has been accepted at
\* T0 and the unit enters run()
FinishInit ==
    /\ RunInit
    /\ runMode = "pinterest"
    /\ minWidth = 2
    /\ maxScrolls = 1
    /\ state = StartedState(InitialState, [mode |-> "pinterest", maxImages |-> maxImages],
                            Some(1), T0)
    /\ now = T0
    /\ pending = {}
    /\ nStarts = 0
    /\ children = <<>>
    /\ lastChild = 0
    /\ nResponses = 0
    /\ lastResp = Null
    /\ statusResp = Null
    /\ poll = Null
    /\ logLines \in EarlierLines
    /\ polled = FALSE
    /\ progress = Null
    /\ tally = Null
    /\ EstimateIdle

FinishNext ==
    \/ RunStart
    \/ RunScroll
    \/ RunCollected
    \/ RunIngest
    \/ RunWriteReport
    \/ RunEnd
    \/ RunFatal
    \/ FinishClose
    \/ FinishPoll

-----------------------------------------------------------------------------
(*                            SPECIFICATIONS                               *)

\* the job runner
Init ==
    JobInit /\ IngestIdle /\ CrawlIdle /\ ScrollIdle /\ ProgressIdle /\ EstimateIdle /\ RunIdle

Next == JobNext

Spec == Init /\ [][Next]_vars

\* the image ingestor
InitIngest ==
    JobInit /\ IngestInit /\ CrawlIdle /\ ScrollIdle /\ ProgressIdle /\ EstimateIdle /\ RunIdle

SpecIngest == InitIngest /\ [][IngestNext]_vars

\* the site crawler
InitCrawl ==
    JobInit /\ IngestIdle /\ CrawlInit /\ ScrollIdle /\ ProgressIdle /\ EstimateIdle /\ RunIdle

SpecCrawl == InitCrawl /\ [][CrawlNext]_vars

\* the site crawler when every awaited promise settles: a step that can be
\* taken is eventually taken
SpecCrawlFair == InitCrawl /\ [][CrawlNext]_vars /\ WF_vars(CrawlNext)

\* the scroll collector alone; every step it can take is eventually taken
InitScroll ==
    JobInit /\ IngestIdle /\ CrawlIdle /\ ScrollInit /\ ProgressIdle /\ EstimateIdle /\ RunIdle

SpecScroll == InitScroll /\ [][ScrollNext]_vars /\ WF_vars(ScrollNext)

\* the progress estimator over a job state, a clock and a log file
InitProgress ==
    /\ state \in ProgressStates
    /\ now = T0 + SkewMs
    /\ pending = {}
    /\ nStarts = 0
    /\ children = <<>>
    /\ lastChild = 0
    /\ nResponses = 0
    /\ lastResp = Null
    /\ statusResp = Null
    /\ poll = Null
    /\ IngestIdle /\ CrawlIdle /\ ScrollIdle /\ ProgressIdle /\ EstimateIdle /\ RunIdle

SpecProgress == InitProgress /\ [][ProgressNext]_vars

\* the arithmetic of the estimator over every count, target and elapsed time
InitEstimate ==
    JobInit /\ IngestIdle /\ CrawlIdle /\ ScrollIdle /\ ProgressIdle /\ EstimateInit /\ RunIdle

SpecEstimate == InitEstimate /\ [][EstimateNext]_vars

\* one whole run of the crawl unit
InitRun == JobInit /\ RunInit /\ ProgressIdle /\ EstimateIdle

SpecRun == InitRun /\ [][RunNext]_vars

\* one whole run when every awaited promise settles
SpecRunFair == InitRun /\ [][RunNext]_vars /\ WF_vars(RunNext)

\* a scroll-mode job from its accepted start to a status request after its end
SpecFinish == FinishInit /\ [][FinishNext]_vars

-----
(*                        PROPERTIES: JOB RUNNER                           *)

\* the crawl units whose process is running
LiveUnits == { c \in 1..Len(children) : children[c].st = "alive" }

\* this step creates a child process
Spawns == Len(children') > Len(children)

\* this step answers a start request with the 409 rejection
Rejects == nResponses' > nResponses /\ lastResp'[1].status = 409

\* C1: single-flight. Under every interleaving of start requests, status
\* polls and child events at most one crawl unit is running, and a unit is
\* spawned only in a step that begins with running = false.
SingleFlight ==
    /\ [](Cardinality(LiveUnits) <= 1)
    /\ [][Spawns => ~state.running /\ LiveUnits = {}]_vars

\* C1 witness: two start requests were in flight together, one was accepted
\* and its unit is running, the other was answered with the rejection.
SingleFlightWitness ==
    /\ nStarts = 2
    /\ pending = {}
    /\ LiveUnits # {}
    /\ lastResp # Null
    /\ lastResp[1].status = 409

LaunchFailureNeverRunning ==
    (lastChild > 0 /\ children[lastChild].launch = "failed") => ~state.running

\* C4 (the claim as stated): once the unit of the latest start has failed to
\* launch or has ended abnormally and its close event has been handled, the
\* job is not running and an error outcome is recorded: lastError or an exit
\* status.
FailedRunEndsWithErrorRecorded ==
    ( /\ lastChild > 0
      /\ children[lastChild].st = "closed"
      /\ children[lastChild].code # Some(0) )
    => ( /\ ~state.running
         /\ (state.lastError # Null \/ state.exitCode # Null) )

\* C5: running goes from true to false only in the step that handles the
\* close event of the unit of the most recent accepted start, and that step
\* records endedAt and the exit status the event carries.
RunningClearedOnlyByClose ==
    [][ (state.running /\ ~state'.running) =>
          /\ lastChild > 0
          /\ lastChild' = lastChild
          /\ children[lastChild].st = "closePending"
          /\ children'[lastChild].st = "closed"
          /\ state'.endedAt = Some(now)
          /\ state'.exitCode = children[lastChild].code ]_vars

\* C5 witness: a second run was started after the first had closed, and its
\* close has cleared running as well.
RunningClearedWitness ==
    /\ Len(children) = 2
    /\ children[1].st = "closed"
    /\ children[2].st = "closed"
    /\ children[2].launch = "ok"
    /\ ~state.running
    /\ state.endedAt # Null
    /\ state.exitCode = children[2].code

-----------------------------------------------------------------------------
(*                       PROPERTIES: IMAGE INGESTOR                        *)

\* the distinct locations of the candidate list
UniqueCandidates == { imageUrls[i] : i \in 1..Len(imageUrls) }

\* C6 (the claim as stated): no location is fetched more than once in one
\* ingest, and on return the three outcome counters add up to the number of
\* distinct candidate locations.
CountersPartitionCandidates ==
    /\ \A u \in Urls : fetches[u] <= 1
    /\ ingestPc = "returned" =>
         stats.imagesSaved + stats.imagesSkippedSmall + stats.imagesFailed
           = Cardinality(UniqueCandidates)

\* the decode results of this ingest whose width is unknown or below minWidth
SmallDecodes == { d \in decodes : d.w = 0 \/ d.w < minWidth }

IngestNeverThrows == ingestPc # "threw"

\* every file the second ingest wrote, the first had written for the same
\* location serving the same content
RepeatsFirst ==
    \A w2 \in fileWrites : w2.run = 2 =>
        \E w1 \in fileWrites : w1.run = 1 /\ w1.url = w2.url /\ w1.ver = w2.ver

\* C9: a location is always written under the same file name while the
\* content served for it is the same; so when the second ingest of the list
\* saved only locations the first had saved, with unchanged content, the
\* content store holds the same file names as after the first.
FilenameDeterminism ==
    /\ \A w1, w2 \in fileWrites :
         (w1.url = w2.url /\ w1.ver = w2.ver) => w1.name = w2.name
    /\ (runNo = 2 /\ ingestPc = "returned" /\ RepeatsFirst) => store = storeAfterFirst

\* C9 witness: both ingests returned, the second saved again a location the
\* first had saved, and the store is the one the first ingest left.
FilenameDeterminismWitness ==
    /\ runNo = 2
    /\ ingestPc = "returned"
    /\ imageUrls # <<>>
    /\ RepeatsFirst
    /\ \E w2 \in fileWrites : w2.run = 2
    /\ Cardinality(store) = 2
    /\ store = storeAfterFirst

-----------------------------------------------------------------------------
(*                        PROPERTIES: SITE CRAWLER                         *)

\* C10: no page is fetched at a depth above maxDepth, and a link is put on
\* the frontier only from a page of depth below maxDepth, one level deeper.
DepthBound ==
    /\ \A i \in 1..Len(visits) : visits[i].depth <= maxDepth
    /\ \A e \in enqueued : e.from < maxDepth /\ e.depth = e.from + 1
    /\ \A i \in 1..Len(queue) : queue[i].depth <= maxDepth

\* C10 witness: a page was fetched at depth maxDepth >= 2, reached through
\* enqueued links; the frontier loop has ended.
DepthBoundWitness ==
    /\ crawlPc = "ingest"
    /\ maxDepth >= 2
    /\ \E i \in 1..Len(visits) : visits[i].depth = maxDepth
    /\ \E e \in enqueued : e.depth = maxDepth

\* C11: with sameOriginOnly every link put on the frontier, and every entry
\* of the frontier, has the origin of the seed, although each link is
\* compared with the page it was found on.
SameOriginAsSeed ==
    sameOriginOnly =>
      /\ \A e \in enqueued : Origin(e.url) = Origin(startUrl)
      /\ \A i \in 1..Len(queue) : Origin(queue[i].url) = Origin(startUrl)

\* C11 witness: a same-origin crawl that followed links two levels deep, so
\* that links were filtered against a page other than the seed.
SameOriginWitness ==
    /\ sameOriginOnly
    /\ crawlPc = "ingest"
    /\ \E e \in enqueued : e.from = 1 /\ e.url # startUrl
    /\ \E i \in 1..Len(visits) : visits[i].depth = 2

\* the page a url names: its normalized, fragment-stripped form
PageKey(u) == StripHash(normalizeUrl(u))

\* C12 (the claim as stated): no two fetches of one crawl are of the same
\* page, pages being told apart by normalized, fragment-stripped url, the
\* seed included.
PageVisitedOnce ==
    \A i, j \in 1..Len(visits) :
        i # j => PageKey(visits[i].url) # PageKey(visits[j].url)

\* this step fetches a page and the fetch fails or is not HTML
FailedVisit ==
    /\ Len(visits') = Len(visits) + 1
    /\ visits'[Len(visits')].fetch # "html"

\* C13 (the claim as stated): a visit whose fetch fails or returns no HTML
\* adds no image candidate and no frontier link, and the crawl goes on with
\* the rest of the frontier.
FailedPageContributesNothing ==
    [][ FailedVisit =>
          /\ discoveredImages' = discoveredImages
          /\ enqueued' = enqueued
          /\ queue' = Tail(queue)
          /\ crawlPc' = "loop" ]_vars

-----------------------------------------------------------------------------
(*                     PROPERTIES: SCROLL COLLECTOR                        *)

\* C14: at every point of the collection loop the set of discovered urls
\* holds at most maxImages urls, and no step makes it smaller.
FoundSizeBounded ==
    /\ [](Len(found) <= maxImages)
    /\ [][Len(found') >= Len(found)]_vars

\* C14 witness: a collection that filled the set to maxImages in its second
\* pass, from a batch that held more urls than were still wanted.
FoundSizeWitness ==
    /\ scrollPc = "endpass"
    /\ passes = 2
    /\ maxImages = 2
    /\ Len(found) = maxImages
    /\ Len(batch) = 2
    /\ bi = 2

\* the collection has ended, by return or by a rejected step
ScrollDone == scrollPc \in {"returned", "threw"}

\* C15: the loop begins at most maxScrolls passes and the collection ends;
\* the scrolls count it returns is the number of passes performed.
ScrollsBounded ==
    /\ [](passes <= maxScrolls)
    /\ [](scrollPc = "returned" => collected[1].stats.scrolls = passes)
    /\ <>ScrollDone

\* C15 witness: a collection that returned after maxScrolls passes without
\* having reached maxImages.
ScrollsBoundedWitness ==
    /\ scrollPc = "returned"
    /\ maxScrolls = 2
    /\ passes = maxScrolls
    /\ Len(found) < maxImages

\* C16 (the claim as stated): when every pass renders at least maxImages
\* distinct image urls and maxScrolls >= 1, collect returns after exactly
\* one pass with exactly maxImages urls.
EarlyExitAsStated ==
    (scrollPc = "returned" /\ richRaw /\ maxScrolls >= 1)
        => (passes = 1 /\ Len(collected[1].imageUrls) = maxImages)

\* C16: no pass begins once the set holds maxImages urls; when maxImages >= 1,
\* maxScrolls >= 1 and every pass renders at least maxImages urls that are
\* distinct after normalization, collect returns after exactly one pass with
\* exactly maxImages distinct normalized urls.
EarlyExit ==
    /\ [][passes' > passes => Len(found) < maxImages]_vars
    /\ [](  (scrollPc = "returned" /\ richNorm /\ maxScrolls >= 1 /\ maxImages >= 1)
              => /\ passes = 1
                 /\ Len(collected[1].imageUrls) = maxImages
                 /\ \A i, j \in 1..maxImages :
                      i # j => collected[1].imageUrls[i] # collected[1].imageUrls[j]
                 /\ \A i \in 1..maxImages :
                      \E r \in RawUrls :
                        normalizePinterestImageUrl(r) = Some(collected[1].imageUrls[i]) )

\* C16 witness: maxImages = 2 reached in the first of two allowed passes.
EarlyExitWitness ==
    /\ scrollPc = "returned"
    /\ richNorm
    /\ maxImages = 2
    /\ maxScrolls = 2
    /\ passes = 1
    /\ Len(found) = 2

\* C17 (the claim as stated): however the collection ends, the browser
\* session it opened is closed.
BrowserClosedOnExit == ScrollDone => browser # "open"

-----------------------------------------------------------------------------
(*                    PROPERTIES: PROGRESS ESTIMATOR                       *)

\* the lines the estimator considers: all but those stamped with a moment
\* before the start of the run less the tolerance
Considered ==
    { i \in 1..Len(logLines) :
        ~(logLines[i].bracket /\ logLines[i].date # Null
            /\ logLines[i].date[1] < state.startedAt[1] - SkewMs) }

\* the number of considered lines of these kinds
CountOf(kinds) == Cardinality({ i \in Considered : logLines[i].kind \in kinds })

\* C18: processed is the number of considered lines of kind saved, plus
\* those of kind skipped_small, plus those of kind failed_non_image_or_status
\* or error; every such line counts once and no other line counts.
ProcessedCountsOutcomes ==
    (polled /\ progress # Null) =>
        /\ progress[1].saved = CountOf({"IMG saved"})
        /\ progress[1].skipped = CountOf({"IMG skipped_small"})
        /\ progress[1].failed = CountOf({"IMG failed_non_image_or_status", "IMG error"})
        /\ progress[1].processed = CountOf(OutcomeKinds)

\* C18 witness: a log with an 'IMG error' line, a line of another kind or a
\* line that is not considered, and a processed count of 1.
ProcessedWitness ==
    /\ polled /\ progress # Null
    /\ Len(logLines) = 2
    /\ logLines[1].kind = "IMG error"
    /\ 1 \in Considered
    /\ logLines[2].kind \notin OutcomeKinds \/ 2 \notin Considered
    /\ progress[1].processed = 1

\* the lines stamped with a moment at or after the start less the tolerance
Timely ==
    { i \in 1..Len(logLines) :
        /\ logLines[i].bracket
        /\ logLines[i].date # Null
        /\ logLines[i].date[1] >= state.startedAt[1] - SkewMs }

\* the largest count of the lines of this kind among the lines I, 0 if none
MaxCountOf(I, kind) ==
    LET ns == { logLines[i].n : i \in { j \in I : logLines[j].kind = kind } }
    IN  IF ns = {} THEN 0 ELSE CHOOSE m \in ns : \A x \in ns : x <= m

\* processed, collected and collection total as the lines I alone give them
ValuesOver(I) ==
    [ processed |-> Cardinality({ i \in I : logLines[i].kind \in OutcomeKinds }),
      collected |-> MaxCountOf(I, "PINTEREST scroll"),
      collectedTotal |-> MaxCountOf(I, "PINTEREST collected_total") ]

\* processed, collected and collection total as the estimator computed them
ValuesComputed ==
    [ processed |-> tally[1].saved + tally[1].skipped + tally[1].failed,
      collected |-> tally[1].collected,
      collectedTotal |-> tally[1].collectedTotal ]

TotalLines == { i \in Considered : logLines[i].kind = "PINTEREST collected_total" }

\* C20 (the claim as stated): in scroll mode the target is the declared
\* maximum image count, or the count of the most recent collection-total
\* line once there is such a line since job start.
TargetFromLastTotal ==
    (polled /\ progress # Null /\ progress[1].mode = "pinterest") =>
        LET last == CHOOSE i \in TotalLines : \A j \in TotalLines : j <= i
            expected == IF TotalLines = {} THEN DeclaredMax(state.payload[1])
                        ELSE logLines[last].n
        IN  progress[1].target = IF expected > 0 THEN Some(expected) ELSE Null

\* C21: in site-crawl mode every progress snapshot has target, percent and
\* etaSec null, whether the job runs or has ended and whatever the log holds.
SiteModeHasNoTarget ==
    (polled /\ progress # Null /\ progress[1].mode = "site") =>
        /\ progress[1].target = Null
        /\ progress[1].percent = Null
        /\ progress[1].etaSec = Null

\* C21 witness: a finished site crawl whose log holds a considered
\* collection-total line and a considered outcome line.
SiteModeWitness ==
    /\ polled /\ progress # Null
    /\ progress[1].mode = "site"
    /\ ~state.running
    /\ progress[1].processed = 1
    /\ \E i \in Considered :
         logLines[i].kind = "PINTEREST collected_total" /\ logLines[i].n > 0

-----------------------------------------------------------------------------
(*               PROPERTIES: ARITHMETIC OF THE ESTIMATOR                   *)

\* C22 (the claim as stated): percent is min(100, round(100 * processed /
\* target)) when target is positive and null otherwise; a non-null percent
\* is an integer in 0..100.
PercentIsRoundedRatio ==
    estOut # Null =>
        /\ estOut[1].percent =
              IF estIn.target > 0
              THEN Some(Min(100, MulDivRoundExact(estIn.processed, estIn.target, 100)))
              ELSE Null
        /\ estOut[1].percent # Null => estOut[1].percent[1] \in 0..100

\* C23 (the claim as stated): etaSec is non-null in two cases only: while
\* running with 0 < processed < target, where it is the rounded value of
\* elapsed * (target - processed) / processed; once ended with a non-null
\* percent, where it is 0.
EtaIsRoundedExtrapolation ==
    estOut # Null =>
        LET i == estIn
            extrapolating == i.running /\ 0 < i.processed /\ i.processed < i.target
            ended == ~i.running /\ estOut[1].percent # Null
        IN  estOut[1].etaSec =
              IF ended THEN Some(0)
              ELSE IF extrapolating
                   THEN Some(MulDivRoundExact(i.elapsedSec, i.processed,
                                              i.target - i.processed))
                   ELSE Null

-----------------------------------------------------------------------------
(*                   PROPERTIES: RUN STATISTICS                            *)

RECURSIVE PairSum(_)
\* the sum of the second components of a set of pairs
PairSum(S) ==
    IF S = {} THEN 0
    ELSE LET x == CHOOSE y \in S : TRUE
         IN  x[2] + PairSum(S \ {x})

\* the files this ingest wrote from images that were recompressed
SavedRecompressed ==
    { fw \in fileWrites : fw.run = runNo /\ Recompressible(Content(fw.url, fw.ver).type) }

\* C26 (the claim as stated): bytesBefore and bytesAfter are the totals over
\* the images that were recompressed and saved; an image passed through
\* unmodified, or not saved, adds to neither.
BytesCountRecompressedOnly ==
    /\ stats.bytesBefore =
         PairSum({ <<fw.url, Content(fw.url, fw.ver).len>> : fw \in SavedRecompressed })
    /\ stats.bytesAfter =
         PairSum({ <<fw.url, RecompressedLen(Content(fw.url, fw.ver))>> :
                     fw \in SavedRecompressed })

-----------------------------------------------------------------------------
(*                 PROPERTIES: FRONTIER LOOP, LIVENESS AND ORDER           *)

\* C27 (the claim as stated): whatever the links, maxDepth and the fetch
\* outcomes, the frontier loop ends with the frontier empty and run() goes
\* on to the ingestion.
CrawlReachesIngest == <>(crawlPc = "ingest" /\ queue = <<>>)

\* the depths the links the crawl found give a page: 0 for the seed, one
\* more than the depth of every page that links to it
DepthsOffered(page) ==
    (IF page = PageKey(startUrl) THEN {0} ELSE {})
      \cup { l.from + 1 : l \in { m \in linksFound : PageKey(m.url) = page } }

\* the pages found within maxDepth links of the seed
Reachable == { PageKey(startUrl) } \cup { PageKey(l.url) : l \in linksFound }

\* the link distance of a page from the seed, every linking page being at
\* its own link distance
LinkDistance(page) ==
    CHOOSE k \in DepthsOffered(page) : \A j \in DepthsOffered(page) : k <= j

\* the crawl is over: the frontier loop was left
CrawlOver == crawlPc \in {"ingest", "fatal"}

\* C28 (the claim as stated): when the crawl is over, the pages were visited
\* in non-decreasing depth order, each at its link distance from the seed,
\* and every page within maxDepth links of the seed through fetched HTML
\* pages was visited.
BreadthFirstComplete ==
    CrawlOver =>
        /\ \A i, j \in 1..Len(visits) : i < j => visits[i].depth <= visits[j].depth
        /\ \A i \in 1..Len(visits) :
             /\ PageKey(visits[i].url) \in Reachable
             /\ visits[i].depth = LinkDistance(PageKey(visits[i].url))
        /\ \A page \in Reachable :
             \E i \in 1..Len(visits) : PageKey(visits[i].url) = page

-----------------------------------------------------------------------------
(*                 PROPERTIES: JOB STATE CONSISTENCY                       *)

\* this step accepts a start: a crawl unit is launched
AcceptsStart == lastChild' # lastChild

\* this step delivers an event of a unit's end: the 'error' of a unit that
\* could not be launched, or 'close'
DeliversEnd ==
    \E c \in 1..Len(children) :
        /\ children[c].st \in {"errorPending", "closePending"}
        /\ children'[c].st # children[c].st

\* C30: in every reachable state, running = true implies startedAt set and
\* endedAt and exitCode null; running = false with startedAt set implies
\* endedAt set; and the job state changes only in a step that accepts a
\* start or delivers an event of the unit's end.
JobStateConsistent ==
    /\ [](state.running =>
            state.startedAt # Null /\ state.endedAt = Null /\ state.exitCode = Null)
    /\ []((~state.running /\ state.startedAt # Null) => state.endedAt # Null)
    /\ [][state' # state => (AcceptsStart \/ DeliversEnd)]_vars

\* C30 witness: a second run in progress after the first has ended with an
\* exit code.
JobStateWitness ==
    /\ state.running
    /\ Len(children) = 2
    /\ children[1].st = "closed" /\ children[1].code # Null
    /\ children[2].st = "alive"

-----------------------------------------------------------------------------
(*                 PROPERTIES: ONE WHOLE RUN                               *)

\* the lines written while candidates are discovered
DiscoveryKinds ==
    { "SITE visit", "SITE discovered", "SITE page_error", "SITE skipped_non_html",
      "PINTEREST open", "PINTEREST scroll", "PINTEREST collected_total" }

\* the outcome lines of downloadImages
ImgKinds ==
    { "IMG saved", "IMG skipped_small", "IMG failed_non_image_or_status", "IMG error" }

\* the positions of the activity record holding a line of one of the kinds
LinesOf(kinds) == { i \in 1..Len(activity) : activity[i].kind \in kinds }

\* C29: within one run 'RUN start' is the first line and precedes every
\* other line; every discovery line (SITE ..., PINTEREST scroll, the single
\* collected_total line) precedes the first IMG outcome line; 'RUN end' is
\* the last line and is there only once the report has been written.
PhaseOrder ==
    /\ LinesOf({"RUN start"}) = (IF activity = <<>> THEN {} ELSE {1})
    /\ \A i \in LinesOf(ImgKinds), j \in LinesOf(DiscoveryKinds) : j < i
    /\ Cardinality(LinesOf({"PINTEREST collected_total"})) <= 1
    /\ LinesOf({"RUN end"}) \subseteq {Len(activity)}
    /\ LinesOf({"RUN end"}) # {} => report # Null /\ runPc = "done"
    /\ runPc = "done" => LinesOf({"RUN end"}) # {}

\* C29 witness: a scroll-mode run that ended after scroll lines, its
\* collected_total line and an IMG line, in that order.
PhaseOrderWitness ==
    /\ runPc = "done"
    /\ runMode = "pinterest"
    /\ LinesOf({"PINTEREST scroll"}) # {}
    /\ LinesOf({"PINTEREST collected_total"}) # {}
    /\ LinesOf({"IMG saved"}) # {}

\* C25: in the report of any run, found is the number of unique candidate
\* locations of the run, so found = saved + skipped_small + failed, also
\* when the same location was discovered on several pages.
FoundCountsUnique ==
    report # Null =>
        LET st == report[1].stats
        IN  /\ st.imagesFound = Cardinality(UniqueCandidates)
            /\ st.imagesFound = st.imagesSaved + st.imagesSkippedSmall + st.imagesFailed

\* C24: every launched run eventually writes its report and its 'RUN end'
\* line, whatever fails during discovery or ingestion.
RunAlwaysReports == <>(report # Null /\ runPc = "done")

-----------------------------------------------------------------------------
(*                 PROPERTIES: STATUS ROUTE                                *)

\* C31: in every status response, under any interleaving of the status
\* request with start requests and close events, the progress object is
\* derived from the run the returned job state describes: the fields the
\* estimator read before the log read and the running flag it read after
\* belong to the same run, and progress.mode is the mode of the returned
\* payload.
StatusSnapshotConsistent ==
    (statusResp # Null /\ statusResp[1].progress # Null) =>
        /\ statusResp[1].readRun = statusResp[1].flagRun
        /\ statusResp[1].progress[1].mode = statusResp[1].state.payload[1].mode

\* the positions of the run's collected_total line in the activity record
RunTotalLines == { i \in 1..Len(activity) : activity[i].kind = "PINTEREST collected_total" }

\* the scroll-mode run ended normally and had logged collected_total = N > 0
EndedNormallyWithTotal ==
    /\ runPc = "done"
    /\ state.exitCode = Some(0)
    /\ \E i \in RunTotalLines : activity[i].total > 0

\* C32: when a scroll-mode run ends normally having logged
\* collected_total = N with N > 0, the progress computed after its end has
\* processed = N, target = N, percent = 100 and etaSec = 0.
CompletionReaches100 ==
    (polled /\ EndedNormallyWithTotal) =>
        \A i \in RunTotalLines :
            /\ progress # Null
            /\ progress[1].processed = activity[i].total
            /\ progress[1].target = Some(activity[i].total)
            /\ progress[1].percent = Some(100)
            /\ progress[1].etaSec = Some(0)

=============================================================================
